---- MODULE Spec2Model ----
(***************************************************************************)
(* NASA gallery downloader: the concurrent fetch / validate / retry        *)
(* pipeline of nasa_image_downloader.py.                                   *)
(*                                                                         *)
(* One process run (main) is either a full run, which drives one pool pass *)
(* per discovered category (process_category), or a resume run             *)
(* (retry_failed_images).  A pass submits every candidate to a             *)
(* ThreadPoolExecutor, whose threads each run download_image, and the main *)
(* thread drains the futures with as_completed.  The image files and the   *)
(* two ledgers (failed_downloads.txt, downloaded_images.txt) live on disk  *)
(* and persist from one run to the next.                                   *)
(*                                                                         *)
(* The file system follows POSIX: a file removed while another thread      *)
(* holds it open stays writable through that handle but is no longer       *)
(* reachable by its path.                                                  *)
(***************************************************************************)
EXTENDS Integers, Sequences, FiniteSets, TLC

----------------------------------------------------------------------------
(* Bounds of the model and program parameters.                             *)

\* Largest args.workers: the size of the thread pool.
MaxWorkers == 2
\* args.retries: attempts of download_image per candidate.
MaxRetries == 2
\* Longest candidate list of one pass.
MaxCands == 2
\* Number of process runs (launches of main) in one behaviour.
MaxRuns == 1
\* The same, where the network answers every URL in one fixed way.
MaxRunsFixed == 2
\* Number of category links one full run discovers.
MaxCats == 1
\* Number of ledger opens that the file system may refuse in one behaviour.
MaxFaults == 1
\* Largest number of tags of a gallery page.
MaxTags == 3
\* MIN_IMAGE_SIZE, the default of args.min_size.
MIN_IMAGE_SIZE == 100


----------------------------------------------------------------------------
(* URLs.  A URL is split into the parts the code looks at: the basename of *)
(* its path without extension, the extension, and the query string.        *)

IMAGE_EXTENSIONS == {".jpg", ".jpeg", ".png", ".gif", ".tif", ".tiff", ".bmp"}

\* str.lower() on the extensions that occur in the model.
Lower(s) ==
    CASE s = ".JPG" -> ".jpg"
      [] s = ".PNG" -> ".png"
      [] OTHER -> s

\* A gallery page: no image extension anywhere in the URL.
P1 == [base |-> "x", ext |-> "", query |-> ""]
\* A direct image URL with an upper-case extension and a query string.
I1 == [base |-> "full_001", ext |-> ".JPG", query |-> "size=orig"]
\* A direct image URL.
I2 == [base |-> "pic", ext |-> ".png", query |-> ""]

\* Python's None where a URL is expected: no URL of the model.
None == [base |-> "None", ext |-> "", query |-> ""]

Pages == {P1}
Images == {I1, I2}
Urls == Pages \cup Images

\* any(ext in img_url.lower() for ext in IMAGE_EXTENSIONS)
HasImageExt(u) == Lower(u.ext) \in IMAGE_EXTENSIONS

\* hashlib.md5(img_url.encode()).hexdigest()[:8]: a digest of the whole URL,
\* query included; distinct URLs of the model have distinct digests.
Md5Prefix(u) ==
    CASE u = P1 -> "6f1ed002"
      [] u = I1 -> "a3c65c29"
      [] u = I2 -> "0cc175b9"
      [] OTHER -> "d41d8cd9"

generate_unique_filename(u) ==
    LET base_name == u.base
        ext == IF u.ext = "" \/ Lower(u.ext) \notin IMAGE_EXTENSIONS
               THEN ".jpg" ELSE u.ext
    IN  <<base_name, Md5Prefix(u), ext>>

Paths == {generate_unique_filename(u) : u \in Images}

----------------------------------------------------------------------------
(* Image bodies and the network.                                           *)

OkBody == [parses |-> TRUE, width |-> 200, height |-> 200]
SmallBody == [parses |-> TRUE, width |-> 50, height |-> 50]
CorruptBody == [parses |-> FALSE, width |-> 0, height |-> 0]
\* What open(..., 'wb') leaves before the body is streamed, and what a
\* stream cut in the middle leaves.
TruncatedBody == [parses |-> FALSE, width |-> 0, height |-> 1]

\* The ways one image GET can end: a valid image, an image below the
\* minimum size, a corrupt body, a body cut in the middle of the stream,
\* a network error / timeout / non-2xx status, a non-image Content-Type.
Answers == {"ok", "small", "corrupt", "cut", "http", "notimg"}

\* An inode is named by the task and attempt whose open() created it.
NoIno == <<0, 0>>
\* No file at a path.
Absent == [exists |-> FALSE, ino |-> NoIno, body |-> TruncatedBody]

\* The value of site when discovery may answer differently at every call.
AnySite == << <<None>> >>

BodyOf(a) ==
    CASE a = "ok" -> OkBody
      [] a = "small" -> SmallBody
      [] a = "corrupt" -> CorruptBody
      [] OTHER -> TruncatedBody

VARIABLES
    soup,         \* extract_image_url: the parsed page, its tags in document order
    image_url,    \* extract_image_url: what it returned
    dir,          \* args.dir: the state of the download directory
    mpc,          \* position of the main thread
    mode,         \* args.retry_failed of the run in progress or to come: "full" or "retry"
    workers,      \* args.workers
    runs,         \* launches of main so far
    maxruns,      \* launches of main in this behaviour
    ncat,         \* full run: len(category_links)
    cat,          \* full run: categories processed so far
    site,         \* what discovery returns (one candidate list per category), or
                  \* AnySite when the site may change from one call to the next
    net,          \* per image URL, the answers the origin may give
    page,         \* per page URL, what extract_image_url may return
    urls,         \* candidates of the current pass (image_links / urls)
    pc,           \* per task, the position of download_image
    actual,       \* per task, actual_img_url
    attempt,      \* per task, the loop variable of the retry loop
    fetches,      \* per task, image GETs performed
    handle,       \* per task, the inode its open file handle writes to
    result,       \* per task, the future: "none", "true", "false", "raised"
    wrote,        \* per task, the ledger lines download_image has appended
    doneOrder,    \* tasks in the order their futures completed
    snapshot,     \* futures found finished when as_completed was called
    drained,      \* tasks in the order as_completed yielded them
    success,      \* success / new_success
    fail,         \* fail / still_failed
    temp_failed,  \* retry_failed_images: temp_failed
    files,        \* target directory: path -> Absent or [exists, ino, body]
    failed_file,  \* failed_downloads.txt, one URL per line
    log_file,     \* downloaded_images.txt, one URL per line
    faults,       \* ledger opens refused so far
    clean         \* every download_image so far, of any run, returned True

vars == <<soup, image_url, dir, mpc, mode, workers, runs, maxruns, ncat, cat, site, net, page, urls, pc, actual, attempt,
          fetches, handle, result, wrote, doneOrder, snapshot, drained,
          success, fail, temp_failed, files, failed_file, log_file, faults, clean>>

envVars == <<soup, image_url, dir, site, net, page, workers, maxruns>>
taskVars == <<pc, actual, attempt, fetches, handle, result, wrote, doneOrder>>
mainVars == <<mpc, mode, runs, ncat, cat, urls, snapshot, drained, success, fail, temp_failed>>
diskVars == <<files, failed_file, log_file>>

Tasks == 1..Len(urls)

\* Tasks whose download_image is running on a pool thread.
Active == {t \in Tasks : pc[t] \notin {"queued", "done"}}

----------------------------------------------------------------------------
(* extract_image_url: the page as BeautifulSoup parsed it.  A tag is its    *)
(* name, the attribute that matters (property or name of a meta tag, src   *)
(* of an img, href of an a; "none" when it has none), what the code tests  *)
(* of the attribute, and a value: the content of a meta tag ("" when it is *)
(* missing or empty), or the src or href.                                  *)

MetaTags ==
    [tag : {"meta"}, attr : {"property", "name"},
     key : {"og:image", "twitter:image"}, val : {"", "a", "b"}]

\* key: whether src.lower() holds one of "full", "large", "orig",
\* "high-res", "hires".
ImgTags ==
    [tag : {"img"}, attr : {"src"}, key : {"hint", "plain"}, val : {"a", "b"}]
        \cup {[tag |-> "img", attr |-> "none", key |-> "plain", val |-> ""]}

\* key: whether href.lower() holds one of IMAGE_EXTENSIONS.
ATags ==
    [tag : {"a"}, attr : {"href"}, key : {"image"}, val : {"a", "b"}]
        \cup {[tag |-> "a", attr |-> "href", key |-> "page", val |-> "a"]}

HtmlTags == MetaTags \cup ImgTags \cup ATags

Documents == UNION {[1..k -> HtmlTags] : k \in 0..MaxTags}

\* soup.find found nothing.
NoTag == [tag |-> "None", attr |-> "none", key |-> "", val |-> ""]

\* The value of image_url before extract_image_url has returned.
Unset == [val |-> "unset", joined |-> FALSE]
\* extract_image_url returns None.
NoImage == [val |-> "None", joined |-> FALSE]
\* meta_tag["content"], as it is.
Content(x) == [val |-> x.val, joined |-> FALSE]
\* urljoin(image_page_url, src)
urljoin(x) == [val |-> x.val, joined |-> TRUE]

\* soup.find_all("meta", ...): the meta tags whose attribute attr is
\* property_value, in document order.
find_all_meta(doc, attr, property_value) ==
    SelectSeq(doc, LAMBDA x : x.tag = "meta" /\ x.attr = attr /\ x.key = property_value)

\* soup.find_all("img", src=True)
find_all_img(doc) == SelectSeq(doc, LAMBDA x : x.tag = "img" /\ x.attr = "src")

\* soup.find_all("a", href=True)
find_all_a(doc) == SelectSeq(doc, LAMBDA x : x.tag = "a" /\ x.attr = "href")

\* soup.find(...): the first tag find_all would return, or None.
find(found) == IF found = <<>> THEN NoTag ELSE Head(found)

\* soup.find("meta", property=pv) or soup.find("meta", attrs={"name": pv})
meta_tag(doc, property_value) ==
    LET by_property == find(find_all_meta(doc, "property", property_value))
        by_name == find(find_all_meta(doc, "name", property_value))
    IN  IF by_property # NoTag THEN by_property ELSE by_name

\* The body of extract_image_url once the page is fetched and parsed.
extract_image_url_soup(doc) ==
    LET og == meta_tag(doc, "og:image")
        tw == meta_tag(doc, "twitter:image")
        hinted == SelectSeq(find_all_img(doc), LAMBDA x : x.key = "hint")
        img_tag == find(find_all_img(doc))
        links == SelectSeq(find_all_a(doc), LAMBDA x : x.key = "image")
    IN  IF og # NoTag /\ og.val # "" THEN Content(og)
        ELSE IF tw # NoTag /\ tw.val # "" THEN Content(tw)
        ELSE IF hinted # <<>> THEN urljoin(Head(hinted))
        ELSE IF img_tag # NoTag THEN urljoin(img_tag)
        ELSE IF links # <<>> THEN urljoin(Head(links))
        ELSE NoImage

----------------------------------------------------------------------------
(* Pure helpers.                                                           *)

is_valid_image(body, min_size) ==
    /\ body.parses
    /\ ~(body.width < min_size \/ body.height < min_size)

\* os.path.exists(img_name) and is_valid_image(img_name, ...)
ValidAt(path) ==
    /\ files[path].exists
    /\ is_valid_image(files[path].body, MIN_IMAGE_SIZE)

PathOf(t) == generate_unique_filename(actual[t])

\* Sequences without repetition over S, of length at most n: what
\* list(set(image_links)) can be.
DistinctSeqs(S, n) ==
    {s \in UNION {[1..k -> S] : k \in 0..n} :
        \A i, j \in DOMAIN s : i # j => s[i] # s[j]}

IsPrefix(s, t) ==
    /\ Len(s) <= Len(t)
    /\ SubSeq(t, 1, Len(s)) = s

----------------------------------------------------------------------------
(* Initial states.                                                         *)

Modes == {"full", "retry"}

\* The download directory as main finds it: there and writable; missing;
\* there, not writable and without a scraper_log.txt; there, not writable,
\* with a scraper_log.txt an earlier run left that can still be appended to.
DirStates == {"writable", "missing", "readonly", "readonly_logged"}

\* The answers that deliver a body, and those that end the attempt before
\* the target file is opened.
Delivered == {"ok", "small", "corrupt", "cut"}
Refused == {"http", "notimg"}

CandLists == DistinctSeqs(Urls, MaxCands)

\* A failure ledger as earlier runs (or an editor) left it: any lines, a
\* URL twice, blank lines.
PriorLedgers == UNION {[1..k -> Urls \cup {None}] : k \in 0..MaxCands}

\* The memory of a process that runs no pass.
NoPass ==
    /\ urls = <<>>
    /\ pc = <<>> /\ actual = <<>> /\ attempt = <<>> /\ fetches = <<>>
    /\ handle = <<>> /\ result = <<>> /\ wrote = <<>>
    /\ doneOrder = <<>>
    /\ snapshot = {}
    /\ drained = <<>>
    /\ success = 0
    /\ fail = 0
    /\ temp_failed = <<>>
    /\ ncat = 0
    /\ cat = 0

\* The same, of the next state.
ClearPass ==
    /\ urls' = <<>>
    /\ pc' = <<>> /\ actual' = <<>> /\ attempt' = <<>> /\ fetches' = <<>>
    /\ handle' = <<>> /\ result' = <<>> /\ wrote' = <<>>
    /\ doneOrder' = <<>>
    /\ snapshot' = {}
    /\ drained' = <<>>
    /\ success' = 0
    /\ fail' = 0
    /\ temp_failed' = <<>>
    /\ ncat' = 0
    /\ cat' = 0

InitCommon ==
    /\ soup = <<>>
    /\ image_url = Unset
    /\ dir \in DirStates
    /\ mpc = "off"
    /\ runs = 0
    /\ workers \in 1..MaxWorkers
    /\ NoPass
    /\ files = [p \in Paths |-> Absent]
    /\ log_file = <<>>
    /\ faults = 0
    /\ clean = TRUE

\* One run, full over an empty download directory or a resume over a
\* failure ledger left behind; the site and the network may answer
\* differently at every call.
Init ==
    /\ InitCommon
    /\ maxruns = MaxRuns
    /\ mode \in Modes
    /\ failed_file \in IF mode = "retry" /\ dir # "missing" THEN PriorLedgers ELSE {<<>>}
    /\ site = AnySite
    /\ net = [u \in Images |-> Answers]
    /\ page = [u \in Pages |-> Images \cup {None}]

\* Runs one after the other, the first one full and over an empty download
\* directory; discovery returns the same candidates at every call, every
\* page resolves the same way and every image URL is answered the same
\* way.
InitFixed ==
    /\ InitCommon
    /\ maxruns = MaxRunsFixed
    /\ mode = "full"
    /\ failed_file = <<>>
    /\ site \in {<<c>> : c \in CandLists}
    /\ net \in [Images -> {{a} : a \in Answers}]
    /\ page \in [Pages -> {{r} : r \in Images \cup {None}}]

----------------------------------------------------------------------------
(* main and the two kinds of pass.                                         *)

\* The pool and the counters at the start of a pass over the candidates c:
\* every candidate is submitted, in order, before the futures are drained.
SubmitAll(c) ==
    /\ urls' = c
    /\ pc' = [t \in 1..Len(c) |-> "queued"]
    /\ actual' = [t \in 1..Len(c) |-> None]
    /\ attempt' = [t \in 1..Len(c) |-> 0]
    /\ fetches' = [t \in 1..Len(c) |-> 0]
    /\ handle' = [t \in 1..Len(c) |-> NoIno]
    /\ result' = [t \in 1..Len(c) |-> "none"]
    /\ wrote' = [t \in 1..Len(c) |-> <<>>]
    /\ doneOrder' = <<>>
    /\ snapshot' = {}
    /\ drained' = <<>>
    /\ success' = 0
    /\ fail' = 0
    /\ temp_failed' = <<>>

\* open(ledger, "w").close() instead.
Touch_Truncates(ledger) == <<>>

\* open(ledger, "a").close(): the file is created when missing and its
\* content is left alone.
Touch(ledger) == ledger

\* setup_logging: RotatingFileHandler opens scraper_log.txt in the download
\* directory for appending as soon as it is constructed.
setup_logging(d) == d \in {"writable", "readonly_logged"}

\* makedirs(exist_ok=True), then a test file is written and removed.
check_directory_writable(d) == d = "writable"

\* main, when setup_logging raises: the exception leaves main, which has no
\* handler around the call, and the process ends with a traceback.
LaunchRaises ==
    /\ mpc = "off"
    /\ runs < maxruns
    /\ ~setup_logging(dir)
    /\ runs' = runs + 1
    /\ mpc' = "crashed"
    /\ UNCHANGED <<mode, ncat, cat, urls, snapshot, drained, success, fail, temp_failed>>
    /\ UNCHANGED <<diskVars, faults>>
    /\ UNCHANGED taskVars
    /\ UNCHANGED clean
    /\ UNCHANGED envVars

\* main, when check_directory_writable returns False: the error is logged
\* and main returns.
LaunchRefused ==
    /\ mpc = "off"
    /\ runs < maxruns
    /\ setup_logging(dir)
    /\ ~check_directory_writable(dir)
    /\ runs' = runs + 1
    /\ mpc' = "exit"
    /\ UNCHANGED <<mode, ncat, cat, urls, snapshot, drained, success, fail, temp_failed>>
    /\ UNCHANGED <<diskVars, faults>>
    /\ UNCHANGED taskVars
    /\ UNCHANGED clean
    /\ UNCHANGED envVars

\* main up to the dispatch on args.retry_failed: the directory is writable
\* and both ledgers are touched.
Launch ==
    /\ mpc = "off"
    /\ runs < maxruns
    /\ setup_logging(dir)
    /\ check_directory_writable(dir)
    /\ runs' = runs + 1
    /\ mpc' = "started"
    /\ failed_file' = Touch(failed_file)
    /\ log_file' = Touch(log_file)
    /\ UNCHANGED <<mode, ncat, cat, urls, snapshot, drained, success, fail, temp_failed>>
    /\ UNCHANGED <<files, faults>>
    /\ UNCHANGED taskVars
    /\ UNCHANGED clean
    /\ UNCHANGED envVars

\* get_category_links and the test that follows it in main.
GetCategoryLinks ==
    /\ mpc = "started"
    /\ mode = "full"
    /\ \E n \in IF site = AnySite THEN 0..MaxCats ELSE {Len(site)} :
        /\ ncat' = n
        /\ mpc' = IF n = 0 THEN "exit" ELSE "category"
    /\ UNCHANGED <<mode, runs, cat, urls, snapshot, drained, success, fail, temp_failed>>
    /\ UNCHANGED <<diskVars, faults>>
    /\ UNCHANGED taskVars
    /\ UNCHANGED clean
    /\ UNCHANGED envVars

\* What load_all_images may return for the category about to be processed.
load_all_images ==
    IF site = AnySite THEN CandLists ELSE {site[cat + 1]}

\* After a category: the next one, or the end of main.
AfterCategory == IF cat + 1 < ncat THEN "category" ELSE "exit"

\* process_category up to the end of the submissions.
ProcessCategory ==
    /\ mpc = "category"
    /\ \E image_links \in load_all_images :
        IF image_links = <<>>
        THEN /\ mpc' = AfterCategory
             /\ cat' = cat + 1
             /\ UNCHANGED <<urls, snapshot, drained, success, fail, temp_failed>>
             /\ UNCHANGED taskVars
        ELSE /\ SubmitAll(image_links)
             /\ mpc' = "submitted"
             /\ cat' = cat
    /\ UNCHANGED <<mode, runs, ncat, diskVars, faults>>
    /\ UNCHANGED clean
    /\ UNCHANGED envVars

\* The lines retry_failed_images reads: stripped, blank ones dropped.
NonBlank(ledger) == SelectSeq(ledger, LAMBDA l : l # None)

\* retry_failed_images without its early returns: with nothing to retry it
\* goes on to an empty pool and to the rewrite of the failure ledger.
RetryRead_NoEarlyReturn ==
    /\ mpc = "started"
    /\ mode = "retry"
    /\ Len(NonBlank(failed_file)) <= MaxCands
    /\ IF NonBlank(failed_file) = <<>>
       THEN /\ mpc' = "rewrite"
            /\ UNCHANGED <<urls, snapshot, drained, success, fail, temp_failed>>
            /\ UNCHANGED taskVars
       ELSE /\ SubmitAll(NonBlank(failed_file))
            /\ mpc' = "submitted"
    /\ UNCHANGED <<mode, runs, ncat, cat, diskVars, faults>>
    /\ UNCHANGED clean
    /\ UNCHANGED envVars

\* retry_failed_images up to the end of the submissions.
RetryRead ==
    /\ mpc = "started"
    /\ mode = "retry"
    /\ Len(NonBlank(failed_file)) <= MaxCands
    /\ IF NonBlank(failed_file) = <<>>
       THEN /\ mpc' = "exit"
            /\ UNCHANGED <<urls, snapshot, drained, success, fail, temp_failed>>
            /\ UNCHANGED taskVars
       ELSE /\ SubmitAll(NonBlank(failed_file))
            /\ mpc' = "submitted"
    /\ UNCHANGED <<mode, runs, ncat, cat, diskVars, faults>>
    /\ UNCHANGED clean
    /\ UNCHANGED envVars

\* The call of as_completed: the futures already finished are set aside and
\* yielded first, in no particular order.
AsCompleted ==
    /\ mpc = "submitted"
    /\ mpc' = "pool"
    /\ snapshot' = {t \in Tasks : pc[t] = "done"}
    /\ UNCHANGED <<mode, runs, ncat, cat, urls, drained, success, fail, temp_failed>>
    /\ UNCHANGED <<diskVars, faults>>
    /\ UNCHANGED taskVars
    /\ UNCHANGED clean
    /\ UNCHANGED envVars

Drained == {drained[k] : k \in DOMAIN drained}

\* The futures as_completed can yield next: those of the snapshot in any
\* order, then the others in the order they complete.
Yieldable ==
    IF snapshot \ Drained # {}
    THEN snapshot \ Drained
    ELSE LET later == SelectSeq(doneOrder, LAMBDA t : t \notin Drained)
         IN  IF later = <<>> THEN {} ELSE {later[1]}

\* retry_failed_images: the URL appended to temp_failed for the future t
\* that enumerate(as_completed(futures)) yields with index i (from 0).
RetryUrlOf(i, t) == urls[i + 1]

\* The loop over as_completed without its except clause doing the count.
Drain_RaiseNotCounted(t) ==
    /\ mpc = "pool"
    /\ t \in Yieldable
    /\ drained' = Append(drained, t)
    /\ IF result[t] = "true"
       THEN /\ success' = success + 1
            /\ UNCHANGED <<fail, temp_failed>>
       ELSE /\ fail' = IF result[t] = "raised" THEN fail ELSE fail + 1
            /\ UNCHANGED success
            /\ temp_failed' = IF mode = "retry"
                              THEN Append(temp_failed, RetryUrlOf(Len(drained), t))
                              ELSE temp_failed
    /\ UNCHANGED <<mpc, mode, runs, ncat, cat, urls, snapshot>>
    /\ UNCHANGED <<diskVars, faults>>
    /\ UNCHANGED taskVars
    /\ UNCHANGED clean
    /\ UNCHANGED envVars

\* One iteration of the loop over as_completed, in either kind of pass.
Drain(t) ==
    /\ mpc = "pool"
    /\ t \in Yieldable
    /\ drained' = Append(drained, t)
    /\ IF result[t] = "true"
       THEN /\ success' = success + 1
            /\ UNCHANGED <<fail, temp_failed>>
       ELSE /\ fail' = fail + 1
            /\ UNCHANGED success
            /\ temp_failed' = IF mode = "retry"
                              THEN Append(temp_failed, RetryUrlOf(Len(drained), t))
                              ELSE temp_failed
    /\ UNCHANGED <<mpc, mode, runs, ncat, cat, urls, snapshot>>
    /\ UNCHANGED <<diskVars, faults>>
    /\ UNCHANGED taskVars
    /\ UNCHANGED clean
    /\ UNCHANGED envVars

\* The end of the with block: every future is drained and the pool is shut
\* down.
PoolExit ==
    /\ mpc = "pool"
    /\ Len(drained) = Len(urls)
    /\ IF mode = "retry"
       THEN /\ mpc' = "rewrite"
            /\ cat' = cat
       ELSE /\ mpc' = AfterCategory
            /\ cat' = cat + 1
    /\ UNCHANGED <<mode, runs, ncat, urls, snapshot, drained, success, fail, temp_failed>>
    /\ UNCHANGED <<diskVars, faults>>
    /\ UNCHANGED taskVars
    /\ UNCHANGED clean
    /\ UNCHANGED envVars

\* open(failed_file, "a") instead.
Truncate_Keeps(ledger) == ledger

\* open(failed_file, "w"): the ledger is truncated.
Truncate(ledger) == <<>>

\* retry_failed_images: the failure ledger is opened for writing.
RewriteOpen ==
    /\ mpc = "rewrite"
    /\ mpc' = "rewriting"
    /\ failed_file' = Truncate(failed_file)
    /\ UNCHANGED <<mode, runs, ncat, cat, urls, snapshot, drained, success, fail, temp_failed>>
    /\ UNCHANGED <<files, log_file, faults>>
    /\ UNCHANGED taskVars
    /\ UNCHANGED clean
    /\ UNCHANGED envVars

\* retry_failed_images: the lines of temp_failed are written and the file
\* is closed; main returns.
RewriteWrite ==
    /\ mpc = "rewriting"
    /\ mpc' = "exit"
    /\ failed_file' = failed_file \o temp_failed
    /\ UNCHANGED <<mode, runs, ncat, cat, urls, snapshot, drained, success, fail, temp_failed>>
    /\ UNCHANGED <<files, log_file, faults>>
    /\ UNCHANGED taskVars
    /\ UNCHANGED clean
    /\ UNCHANGED envVars

\* main has returned: the process ends and its memory is gone; the disk
\* stays.  No handle is open any more, so the inode numbers are forgotten.
\* The next run, if any, is started with either value of --retry-failed.
Exit ==
    /\ mpc = "exit"
    /\ mpc' = "off"
    /\ ClearPass
    /\ mode' \in IF runs < maxruns THEN Modes ELSE {mode}
    /\ files' = [p \in Paths |-> IF files[p].exists
                                  THEN [files[p] EXCEPT !.ino = NoIno]
                                  ELSE files[p]]
    /\ UNCHANGED <<runs, failed_file, log_file, faults>>
    /\ UNCHANGED clean
    /\ UNCHANGED envVars

\* KeyboardInterrupt reaches the main thread inside the try block of main.
\* Within the with block of a pass the executor is shut down with
\* wait=True, so the work already submitted still runs; elsewhere main goes
\* straight to its handler.  An open failure ledger is closed as it is.
Interrupt ==
    /\ mpc \in {"started", "category", "submitted", "pool", "rewrite", "rewriting"}
    /\ mpc' = IF mpc \in {"submitted", "pool"} THEN "stopping" ELSE "interrupted"
    /\ UNCHANGED <<mode, runs, ncat, cat, urls, snapshot, drained, success, fail, temp_failed>>
    /\ UNCHANGED <<diskVars, faults>>
    /\ UNCHANGED taskVars
    /\ UNCHANGED clean
    /\ UNCHANGED envVars

\* The pool threads have been joined: KeyboardInterrupt goes on to the
\* handler of main, past the rewrite of the failure ledger.
PoolJoined ==
    /\ mpc = "stopping"
    /\ \A t \in Tasks : pc[t] = "done"
    /\ mpc' = "interrupted"
    /\ UNCHANGED <<mode, runs, ncat, cat, urls, snapshot, drained, success, fail, temp_failed>>
    /\ UNCHANGED <<diskVars, faults>>
    /\ UNCHANGED taskVars
    /\ UNCHANGED clean
    /\ UNCHANGED envVars

----------------------------------------------------------------------------
(* The pool threads: download_image, one step per action.                  *)

\* The pool accepts and runs work: from the submissions to the end of the
\* with block, which an interrupted main leaves through shutdown(wait=True).
PoolOpen == mpc \in {"submitted", "pool", "stopping"}

\* A pool that starts a thread for every work item.
ThreadFree_Unbounded == TRUE

\* ThreadPoolExecutor(max_workers=args.workers): a thread is free to take
\* the next work item of the queue.
ThreadFree == Cardinality(Active) < workers

\* The work queue is first in, first out.
QueueHead(t) == \A q \in Tasks : pc[q] = "queued" => t <= q

\* download_image returns r (or raises): the future of t completes.
Finish(t, r) ==
    /\ pc' = [pc EXCEPT ![t] = "done"]
    /\ result' = [result EXCEPT ![t] = r]
    /\ handle' = [handle EXCEPT ![t] = NoIno]
    /\ doneOrder' = Append(doneOrder, t)
    /\ clean' = (clean /\ r = "true")

\* A loop that runs once too often.
LoopAt_OffByOne(n) == IF n <= MaxRetries THEN "loop" ELSE "failopen"

\* for attempt in range(max_retries): the position after the attempts
\* 0 .. n-1, the next attempt or the code after the loop.
LoopAt(n) == IF n < MaxRetries THEN "loop" ELSE "failopen"

\* The current attempt is over without a return: the loop goes on.
NextAttempt(t) ==
    /\ pc' = [pc EXCEPT ![t] = LoopAt(attempt[t] + 1)]
    /\ attempt' = [attempt EXCEPT ![t] = @ + 1]
    /\ handle' = [handle EXCEPT ![t] = NoIno]

\* The current attempt ends in one of the two except clauses: the error is
\* logged and random_wait(3, 7) follows.
Except(t) ==
    /\ pc' = [pc EXCEPT ![t] = "backoff"]
    /\ handle' = [handle EXCEPT ![t] = NoIno]
    /\ UNCHANGED attempt

\* What extract_image_url may return for a page.
extract_image_url(u) == page[u]

\* A pool thread takes the work item of t and enters download_image: the
\* candidate is a direct image URL, or it is resolved.
Start(t) ==
    /\ PoolOpen
    /\ pc[t] = "queued"
    /\ QueueHead(t)
    /\ ThreadFree
    /\ IF HasImageExt(urls[t])
       THEN /\ actual' = [actual EXCEPT ![t] = urls[t]]
            /\ pc' = [pc EXCEPT ![t] = "check"]
       ELSE \E actual_img_url \in extract_image_url(urls[t]) :
            /\ actual' = [actual EXCEPT ![t] = actual_img_url]
            /\ pc' = [pc EXCEPT ![t] = IF actual_img_url = None
                                       THEN "failopen" ELSE "check"]
    /\ UNCHANGED <<attempt, fetches, handle, result, wrote, doneOrder>>
    /\ UNCHANGED <<mainVars, diskVars, faults>>
    /\ UNCHANGED clean
    /\ UNCHANGED envVars

\* download_image without the test of the existing file.
CheckExisting_NoSkip(t) ==
    /\ pc[t] = "check"
    /\ pc' = [pc EXCEPT ![t] = LoopAt(0)]
    /\ UNCHANGED <<handle, result, doneOrder, clean>>
    /\ UNCHANGED <<actual, wrote, attempt, fetches>>
    /\ UNCHANGED <<mainVars, diskVars, faults>>
    /\ UNCHANGED envVars

\* The target path already holds a valid image: return True.  Otherwise the
\* retry loop is entered.
CheckExisting(t) ==
    /\ pc[t] = "check"
    /\ IF ValidAt(PathOf(t))
       THEN /\ Finish(t, "true")
       ELSE /\ pc' = [pc EXCEPT ![t] = LoopAt(0)]
            /\ UNCHANGED <<handle, result, doneOrder, clean>>
    /\ UNCHANGED <<actual, wrote, attempt, fetches>>
    /\ UNCHANGED <<mainVars, diskVars, faults>>
    /\ UNCHANGED envVars

\* open(img_name, 'wb'): the file is created, or truncated when it exists.
OpenFile(t) ==
    LET ino == IF files[PathOf(t)].exists
               THEN files[PathOf(t)].ino ELSE <<t, attempt[t]>>
    IN  /\ files' = [files EXCEPT ![PathOf(t)] =
                        [exists |-> TRUE, ino |-> ino, body |-> TruncatedBody]]
        /\ handle' = [handle EXCEPT ![t] = ino]
        /\ pc' = [pc EXCEPT ![t] = "write"]

\* One requests.get of the retry loop.  A request error (network, timeout,
\* non-2xx status) raises; a non-image Content-Type is logged and the loop
\* continues; otherwise the target file is opened for the body.
Fetch(t) ==
    /\ pc[t] = "loop"
    /\ fetches' = [fetches EXCEPT ![t] = @ + 1]
    /\ \/ /\ "http" \in net[actual[t]]
          /\ Except(t)
          /\ UNCHANGED files
       \/ /\ "notimg" \in net[actual[t]]
          /\ NextAttempt(t)
          /\ UNCHANGED files
       \/ /\ net[actual[t]] \cap Delivered # {}
          /\ OpenFile(t)
          /\ UNCHANGED attempt
    /\ UNCHANGED <<actual, wrote, result, doneOrder>>
    /\ UNCHANGED <<mainVars, failed_file, log_file, faults>>
    /\ UNCHANGED clean
    /\ UNCHANGED envVars

\* The body is streamed into the open file and the file is closed.  A
\* stream cut in the middle raises and ends the attempt; what was written
\* stays.  The bytes reach the path only while it still names the inode of
\* the handle.
WriteBody(t) ==
    /\ pc[t] = "write"
    /\ \E a \in net[actual[t]] \cap Delivered :
        /\ files' = IF files[PathOf(t)].exists /\ files[PathOf(t)].ino = handle[t]
                    THEN [files EXCEPT ![PathOf(t)].body = BodyOf(a)]
                    ELSE files
        /\ IF a = "cut"
           THEN Except(t)
           ELSE /\ pc' = [pc EXCEPT ![t] = "validate"]
                /\ handle' = [handle EXCEPT ![t] = NoIno]
                /\ UNCHANGED attempt
    /\ UNCHANGED <<actual, wrote, fetches, result, doneOrder>>
    /\ UNCHANGED <<mainVars, failed_file, log_file, faults>>
    /\ UNCHANGED clean
    /\ UNCHANGED envVars

\* random_wait(3, 7) at the end of an except clause is over: the loop goes
\* on.
Backoff(t) ==
    /\ pc[t] = "backoff"
    /\ NextAttempt(t)
    /\ UNCHANGED <<actual, wrote, fetches, result, doneOrder>>
    /\ UNCHANGED <<mainVars, diskVars, faults>>
    /\ UNCHANGED clean
    /\ UNCHANGED envVars

\* The success branch taken without the test.
Validate_NoTest(t) ==
    /\ pc[t] = "validate"
    /\ pc' = [pc EXCEPT ![t] = "logopen"]
    /\ UNCHANGED <<actual, wrote, attempt, fetches, handle, result, doneOrder>>
    /\ UNCHANGED <<mainVars, diskVars, faults>>
    /\ UNCHANGED clean
    /\ UNCHANGED envVars

\* is_valid_image(img_name, ...) on what the path holds now.
Validate(t) ==
    /\ pc[t] = "validate"
    /\ pc' = [pc EXCEPT ![t] = IF ValidAt(PathOf(t)) THEN "logopen" ELSE "remove"]
    /\ UNCHANGED <<actual, wrote, attempt, fetches, handle, result, doneOrder>>
    /\ UNCHANGED <<mainVars, diskVars, faults>>
    /\ UNCHANGED clean
    /\ UNCHANGED envVars

\* The file was rejected: it is removed when it exists, and the loop goes
\* on.
Remove(t) ==
    /\ pc[t] = "remove"
    /\ files' = [files EXCEPT ![PathOf(t)] = Absent]
    /\ NextAttempt(t)
    /\ UNCHANGED <<actual, wrote, fetches, result, doneOrder>>
    /\ UNCHANGED <<mainVars, failed_file, log_file, faults>>
    /\ UNCHANGED clean
    /\ UNCHANGED envVars

\* open(log_file, "a") inside the try block: a refusal is caught by
\* "except Exception" and ends the attempt.
LogOpen(t) ==
    /\ pc[t] = "logopen"
    /\ \/ /\ pc' = [pc EXCEPT ![t] = "logwrite"]
          /\ UNCHANGED <<attempt, handle, faults>>
       \/ /\ faults < MaxFaults
          /\ faults' = faults + 1
          /\ Except(t)
    /\ UNCHANGED <<actual, wrote, fetches, result, doneOrder, clean>>
    /\ UNCHANGED <<mainVars, diskVars>>
    /\ UNCHANGED envVars

\* The line is written to the success ledger; return True.
LogWrite(t) ==
    /\ pc[t] = "logwrite"
    /\ log_file' = Append(log_file, actual[t])
    /\ wrote' = [wrote EXCEPT ![t] = Append(@, [ledger |-> "log_file", line |-> actual[t]])]
    /\ Finish(t, "true")
    /\ UNCHANGED <<actual, attempt, fetches>>
    /\ UNCHANGED <<mainVars, files, failed_file, faults>>
    /\ UNCHANGED envVars

\* open(failed_file, "a") outside any try block: a refusal leaves
\* download_image as an exception.
FailOpen(t) ==
    /\ pc[t] = "failopen"
    /\ \/ /\ pc' = [pc EXCEPT ![t] = "failwrite"]
          /\ UNCHANGED <<handle, result, doneOrder, faults, clean>>
       \/ /\ faults < MaxFaults
          /\ faults' = faults + 1
          /\ Finish(t, "raised")
    /\ UNCHANGED <<actual, wrote, attempt, fetches>>
    /\ UNCHANGED <<mainVars, diskVars>>
    /\ UNCHANGED envVars

\* The line download_image writes to the failure ledger: the candidate when
\* it could not be resolved, the image URL when the loop was exhausted.
FailedLine(t) == IF actual[t] = None THEN urls[t] ELSE actual[t]

\* The line is written to the failure ledger; return False.
FailWrite(t) ==
    /\ pc[t] = "failwrite"
    /\ failed_file' = Append(failed_file, FailedLine(t))
    /\ wrote' = [wrote EXCEPT ![t] = Append(@, [ledger |-> "failed_file", line |-> FailedLine(t)])]
    /\ Finish(t, "false")
    /\ UNCHANGED <<actual, attempt, fetches>>
    /\ UNCHANGED <<mainVars, files, log_file, faults>>
    /\ UNCHANGED envVars

----------------------------------------------------------------------------
Next ==
    \/ LaunchRaises
    \/ LaunchRefused
    \/ Launch
    \/ GetCategoryLinks
    \/ ProcessCategory
    \/ RetryRead
    \/ AsCompleted
    \/ \E t \in Tasks : Drain(t)
    \/ PoolExit
    \/ RewriteOpen
    \/ RewriteWrite
    \/ Exit
    \/ \E t \in Tasks : Start(t)
    \/ \E t \in Tasks : CheckExisting(t)
    \/ \E t \in Tasks : Fetch(t)
    \/ \E t \in Tasks : WriteBody(t)
    \/ \E t \in Tasks : Backoff(t)
    \/ \E t \in Tasks : Validate(t)
    \/ \E t \in Tasks : Remove(t)
    \/ \E t \in Tasks : LogOpen(t)
    \/ \E t \in Tasks : LogWrite(t)
    \/ \E t \in Tasks : FailOpen(t)
    \/ \E t \in Tasks : FailWrite(t)

\* One run over a site and a network free to answer in any way.
Spec == Init /\ [][Next]_vars

\* Successive runs over a site and a network that answer in one fixed way.
SpecFixed == InitFixed /\ [][Next]_vars

\* extract_image_url on its own, over every page of at most MaxTags tags.
InitExtract ==
    /\ soup \in Documents
    /\ image_url = Unset
    /\ dir = "writable"
    /\ mpc = "off"
    /\ runs = 0
    /\ maxruns = 0
    /\ workers = 1
    /\ mode = "full"
    /\ NoPass
    /\ files = [p \in Paths |-> Absent]
    /\ failed_file = <<>>
    /\ log_file = <<>>
    /\ faults = 0
    /\ clean = TRUE
    /\ site = AnySite
    /\ net = [u \in Images |-> Answers]
    /\ page = [u \in Pages |-> Images \cup {None}]

\* The call of extract_image_url returns.
ExtractImageUrl ==
    /\ image_url = Unset
    /\ image_url' = extract_image_url_soup(soup)
    /\ UNCHANGED <<soup, dir, site, net, page, workers, maxruns>>
    /\ UNCHANGED <<mainVars, taskVars, diskVars, faults, clean>>

SpecExtract == InitExtract /\ [][ExtractImageUrl]_vars

\* A run that the user may interrupt.
NextInterrupted ==
    \/ Next
    \/ Interrupt
    \/ PoolJoined

SpecInterrupted == Init /\ [][NextInterrupted]_vars

----------------------------------------------------------------------------
(* Properties.                                                             *)

Range(seq) == {seq[k] : k \in DOMAIN seq}

\* A pass over at least one candidate has ended: the pool is shut down and,
\* in a resume run, the failure ledger is rewritten.
PassOver == mpc \in {"exit", "category"} /\ urls # <<>>

ResumeOver == PassOver /\ mode = "retry"

\* The tasks whose download_image returned False or raised.
FailedTasks == {t \in Tasks : result[t] \in {"false", "raised"}}
SucceededTasks == {t \in Tasks : result[t] = "true"}

\* C1: when a resume pass is over, the lines of the failure ledger are
\* exactly the URLs of the candidates whose download_image returned False
\* or raised in this pass.
C1_ResumeLedgerIsFailedSet ==
    ResumeOver => Range(failed_file) = {urls[t] : t \in FailedTasks}

\* C2: at most args.workers invocations of download_image are active at the
\* same time, whatever the number of candidates.
C2_ConcurrencyBound == Cardinality(Active) <= workers

\* C2, its case: the pool is full while a candidate still waits in the
\* queue.
C2_Witness ==
    /\ Cardinality(Active) = workers
    /\ \E t \in Tasks : pc[t] = "queued"

\* The stage of download_image within one attempt.
Stage(p) ==
    CASE p = "queued" -> 0
      [] p = "check" -> 1
      [] p = "loop" -> 2
      [] p = "write" -> 3
      [] p = "validate" -> 4
      [] p = "remove" -> 5
      [] p = "logopen" -> 5
      [] p = "logwrite" -> 6
      [] p = "backoff" -> 6
      [] p = "failopen" -> 7
      [] p = "failwrite" -> 8
      [] OTHER -> 9

\* A measure of how far download_image has come.
Rank(p, a) == a * 10 + Stage(p)

C3_Bounded ==
    \A t \in Tasks :
        /\ fetches[t] <= MaxRetries
        /\ attempt[t] <= MaxRetries
        /\ attempt[t] = MaxRetries =>
              /\ pc[t] \in {"failopen", "failwrite", "done"}
              /\ result[t] # "true"
        /\ (pc[t] = "done" /\ attempt[t] = MaxRetries) =>
              result[t] \in {"false", "raised"}

\* While the pool of a pass is open, a step that moves a task moves it up.
C3_Progress ==
    PoolOpen =>
        \A t \in Tasks :
            <<pc[t], attempt[t], fetches[t]>> # <<pc'[t], attempt'[t], fetches'[t]>>
                => Rank(pc'[t], attempt'[t]) > Rank(pc[t], attempt[t])

\* C3: download_image performs at most max_retries fetches; when every
\* attempt has failed it leaves the loop and ends with outcome Failed; and it
\* never loops: every step it takes brings it strictly further in a measure
\* bounded by max_retries.
C3_RetryBound == []C3_Bounded /\ [][C3_Progress]_vars

\* C3, its case: a candidate was fetched max_retries times, every attempt
\* failed, and download_image returned False.
C3_Witness ==
    \E t \in Tasks :
        pc[t] = "done" /\ fetches[t] = MaxRetries /\ result[t] = "false"

\* What the target directory holds, without the inode numbers.
FilesView == [p \in Paths |-> [exists |-> files[p].exists, body |-> files[p].body]]

\* The second of two full runs over the same candidates and the same
\* network.
SecondFullRun == runs = 2 /\ mode = "full"

C5_ResumeShrinkage ==
    ResumeOver => Len(failed_file) = Len(urls) - Cardinality(SucceededTasks)

\* C5, its case: a resume pass over two lines, one of which succeeded.
C5_Witness ==
    /\ ResumeOver
    /\ Len(urls) = 2
    /\ Cardinality(SucceededTasks) = 1

\* C6: when a pass is over, the URL of every candidate counted as a failure
\* (the candidate, or the image URL it resolved to) is in the failure ledger.
C6_FailuresRecorded ==
    PassOver =>
        \A t \in FailedTasks :
            urls[t] \in Range(failed_file) \/ FailedLine(t) \in Range(failed_file)

\* C7: no two writes to the same ledger overlap: two workers never hold the
\* same ledger open for an append at the same time, and no worker does
\* while the resume rewrite holds the failure ledger open.
C7_LedgerWritesExclusive ==
    /\ \A t1, t2 \in Tasks :
          t1 # t2 => /\ ~(pc[t1] = "logwrite" /\ pc[t2] = "logwrite")
                     /\ ~(pc[t1] = "failwrite" /\ pc[t2] = "failwrite")
    /\ mpc = "rewriting" => \A t \in Tasks : pc[t] # "failwrite"

\* C8: two workers that have their target file open for writing, or are
\* about to delete it, never have the same target path.
C8_TargetPathsDisjoint ==
    \A t1, t2 \in Tasks :
        (t1 # t2 /\ pc[t1] \in {"write", "remove"} /\ pc[t2] \in {"write", "remove"})
            => PathOf(t1) # PathOf(t2)

\* C9: every step leaves the previous content of the success ledger as a
\* prefix of its new content.
C9_SuccessLedgerAppendOnly == [][IsPrefix(log_file, log_file')]_vars

\* C9, its case: a second run, a resume pass with its rewrite of the failure
\* ledger, has ended over a success ledger that an earlier run filled.
C9_Witness ==
    /\ runs = 2
    /\ ResumeOver
    /\ mpc = "exit"
    /\ log_file # <<>>

\* C10: every candidate of a pass is counted once: no future is drained
\* twice, the two counters count the drained futures by outcome, a raised
\* exception as a failure, and when the pass is over every candidate has
\* reached a terminal outcome and success + fail is their number.
C10_EveryCandidateCountedOnce ==
    /\ Cardinality(Drained) = Len(drained)
    /\ success = Cardinality(Drained \cap SucceededTasks)
    /\ fail = Cardinality(Drained \cap FailedTasks)
    /\ PassOver =>
          /\ \A t \in Tasks : pc[t] = "done" /\ result[t] # "none"
          /\ Drained = Tasks
          /\ success + fail = Len(urls)

\* C10, its case: a pass is over in which one worker raised and another
\* candidate succeeded.
C10_Witness ==
    /\ PassOver
    /\ \E t1, t2 \in Tasks : result[t1] = "raised" /\ result[t2] = "true"

\* C11: when the download directory is missing or not writable, or discovery
\* returns no candidate, main ends normally: no exception leaves main, no
\* worker is started and the ledgers and image files stay as they were.
C11_EarlyEndIsNormal ==
    /\ mpc # "crashed"
    /\ dir # "writable" =>
          /\ urls = <<>>
          /\ files = [p \in Paths |-> Absent]
          /\ log_file = <<>>
    /\ (mpc = "exit" /\ urls = <<>>) =>
          /\ files = [p \in Paths |-> Absent]
          /\ log_file = <<>>

\* The candidates whose image URL the origin always answers with a body that
\* is_valid_image rejects: an image below the minimum size, or a corrupt
\* one.
AlwaysRejected(t) ==
    /\ actual[t] # None
    /\ net[actual[t]] \subseteq {"small", "corrupt"}

\* C12: a candidate whose every fetch is delivered and rejected by
\* is_valid_image ends with outcome Failed after max_retries fetches; it has
\* appended its URL once to the failure ledger and nothing to the success
\* ledger, and it leaves no file at its target path (a file there belongs to
\* another worker with the same target path that has opened it since).
C12_RejectedEndsFailed ==
    \A t \in Tasks :
        (pc[t] = "done" /\ AlwaysRejected(t)) =>
            /\ result[t] = "false"
            /\ fetches[t] = MaxRetries
            /\ wrote[t] = <<[ledger |-> "failed_file", line |-> actual[t]]>>
            /\ files[PathOf(t)].exists =>
                  \E s \in Tasks \ {t} :
                      /\ PathOf(s) = PathOf(t)
                      /\ pc[s] \in {"write", "validate", "remove"}

\* The candidates submitted to the pool whose future main has not drained
\* and counted yet.
InFlight == Tasks \ Drained

\* C13: at any moment of a pass at most args.workers candidates have been
\* submitted to the pool without their outcome having been drained and
\* counted.
C13_BoundedAdmission == Cardinality(InFlight) <= workers

\* C14: after an interruption of main, the URL of every candidate that had
\* reached outcome Failed is in the failure ledger on disk, and the line of
\* every candidate that had reached Success is in the success ledger.
C14_NoRecordLostOnInterrupt ==
    mpc = "interrupted" =>
        \A t \in Tasks :
            /\ result[t] = "false" => FailedLine(t) \in Range(failed_file)
            /\ \A k \in DOMAIN wrote[t] :
                  wrote[t][k].ledger = "log_file" => wrote[t][k].line \in Range(log_file)

\* The candidates that are no direct image URL and for which
\* extract_image_url returned no image URL.
Unresolved(t) == pc[t] \notin {"queued"} /\ ~HasImageExt(urls[t]) /\ actual[t] = None

\* C15: a candidate that is not a direct image URL and cannot be resolved
\* goes straight to the failure record: it never enters the retry loop, it
\* fetches and opens nothing, and download_image returns False with the
\* candidate URL appended once to the failure ledger.
C15_UnresolvedFailsAtOnce ==
    \A t \in Tasks :
        Unresolved(t) =>
            /\ pc[t] \in {"failopen", "failwrite", "done"}
            /\ fetches[t] = 0 /\ attempt[t] = 0 /\ handle[t] = NoIno
            /\ pc[t] = "done" =>
                  /\ result[t] = "false"
                  /\ wrote[t] = <<[ledger |-> "failed_file", line |-> urls[t]]>>

\* The candidates that download_image ended as Skipped.
Skipped(t) == pc[t] = "done" /\ result[t] = "true" /\ fetches[t] = 0

\* The step download_image takes from the test of the existing file when
\* the target path holds a valid image: it returns True, and no file and no
\* ledger changes.
C16_SkipStep ==
    \A t \in Tasks :
        (pc[t] = "check" /\ ValidAt(PathOf(t)) /\ pc'[t] # "check") =>
            /\ pc'[t] = "done" /\ result'[t] = "true"
            /\ fetches'[t] = 0 /\ attempt'[t] = 0
            /\ wrote'[t] = <<>>
            /\ files' = files /\ log_file' = log_file /\ failed_file' = failed_file

\* C16: a candidate whose target path already holds a valid image ends as
\* Skipped: download_image returns True without any fetch, and it changes
\* neither the image file nor the success ledger nor the failure ledger.
C16_SkipLeavesDiskAlone ==
    /\ [](\A t \in Tasks : Skipped(t) => wrote[t] = <<>> /\ attempt[t] = 0)
    /\ [][C16_SkipStep]_vars

\* C16, its case: a candidate was skipped over a valid image that another
\* candidate of the same pass had downloaded.
C16_Witness ==
    \E t \in Tasks : Skipped(t) /\ ValidAt(PathOf(t)) /\ log_file # <<>>

\* The step in which a GET of t is rejected, for a non-2xx status or for a
\* non-image Content-Type: a fetch after which no file is opened.
Rejection(t) ==
    /\ pc[t] = "loop"
    /\ fetches'[t] = fetches[t] + 1
    /\ pc'[t] # "write"

\* C17: an attempt rejected for a non-2xx status or a non-image
\* Content-Type goes to random_wait(3, 7) before the next attempt begins, and
\* the rejection writes nothing to the target directory.
C17_RejectionBacksOff ==
    [][\A t \in Tasks : Rejection(t) => (pc'[t] = "backoff" /\ files' = files)]_vars

Min(S) == CHOOSE i \in S : \A j \in S : i <= j

\* The places of the page where each tier has a match.
Tier1(doc) ==
    {i \in DOMAIN doc : doc[i].tag = "meta" /\ doc[i].val # ""
                          /\ doc[i].key \in {"og:image", "twitter:image"}}
Tier2(doc) ==
    {i \in DOMAIN doc : doc[i].tag = "img" /\ doc[i].attr = "src" /\ doc[i].key = "hint"}
Tier3(doc) == {i \in DOMAIN doc : doc[i].tag = "img" /\ doc[i].attr = "src"}
Tier4(doc) ==
    {i \in DOMAIN doc : doc[i].tag = "a" /\ doc[i].attr = "href" /\ doc[i].key = "image"}

\* The first tier with a match wins, and in it the match that comes first in
\* the document.
FirstMatch(doc) ==
    IF Tier1(doc) # {} THEN Content(doc[Min(Tier1(doc))])
    ELSE IF Tier2(doc) # {} THEN urljoin(doc[Min(Tier2(doc))])
    ELSE IF Tier3(doc) # {} THEN urljoin(doc[Min(Tier3(doc))])
    ELSE IF Tier4(doc) # {} THEN urljoin(doc[Min(Tier4(doc))])
    ELSE NoImage

\* C18: extract_image_url returns the match of the first tier that has one,
\* and within the tier the match that comes first in document order, also
\* between an og:image and a twitter:image tag.
C18_FirstMatchInDocumentOrder ==
    image_url # Unset => image_url = FirstMatch(soup)

SuccessLine(t) == [ledger |-> "log_file", line |-> actual[t]]
FailureLine(t) == [ledger |-> "failed_file", line |-> FailedLine(t)]

\* What holds of a candidate in every state: it is on its way to the
\* failure ledger only when its resolution failed or its attempts are used
\* up, and it has written a ledger line only when download_image has
\* returned, with the outcome the line records.
C19_Known ==
    \A t \in Tasks :
        /\ pc[t] \in {"failopen", "failwrite"} =>
              (Unresolved(t) \/ attempt[t] = MaxRetries)
        /\ wrote[t] # <<>> =>
              /\ pc[t] = "done"
              /\ \/ wrote[t] = <<SuccessLine(t)>> /\ result[t] = "true"
                 \/ /\ wrote[t] = <<FailureLine(t)>> /\ result[t] = "false"
                    /\ (Unresolved(t) \/ attempt[t] = MaxRetries)
        /\ mpc \in {"rewrite", "rewriting"} => pc[t] = "done"

\* What holds of every step: a ledger grows by the line of one candidate, in
\* the step in which its download_image returns; the way to the success
\* ledger starts at a file that has just passed is_valid_image, in the same
\* attempt; and, while the pass lasts, an outcome once reached stays.
C19_Step ==
    /\ log_file' # log_file =>
          \E t \in Tasks :
              /\ pc[t] = "logwrite" /\ pc'[t] = "done" /\ result'[t] = "true"
              /\ log_file' = Append(log_file, actual[t])
    /\ (failed_file' # failed_file /\ mpc \notin {"rewrite", "rewriting"}) =>
          \E t \in Tasks :
              /\ pc[t] = "failwrite" /\ pc'[t] = "done" /\ result'[t] = "false"
              /\ failed_file' = Append(failed_file, FailedLine(t))
    /\ (PoolOpen /\ mpc' # "off") =>
          \A t \in Tasks :
              /\ (pc'[t] = "logopen" /\ pc[t] # "logopen") =>
                    /\ pc[t] = "validate" /\ ValidAt(PathOf(t))
                    /\ attempt'[t] = attempt[t]
              /\ (pc'[t] = "logwrite" /\ pc[t] # "logwrite") =>
                    pc[t] = "logopen" /\ attempt'[t] = attempt[t]
              /\ pc[t] = "done" =>
                    /\ pc'[t] = "done" /\ result'[t] = result[t]
                    /\ wrote'[t] = wrote[t]

\* C19: a ledger line is written only once the outcome it records is known:
\* a success line after the file of the same attempt passed is_valid_image,
\* a failure line after resolution failed or max_retries attempts were used,
\* and in the very step in which download_image returns, after which the
\* outcome does not change; the resume rewrite starts when every candidate
\* has returned.
C19_LedgerWriteAfterOutcome == []C19_Known /\ [][C19_Step]_vars

\* C19, its case: in one pass a candidate was downloaded and logged, and
\* another one used up its attempts and was recorded as failed.
C19_Witness ==
    \E t1, t2 \in Tasks :
        /\ wrote[t1] = <<SuccessLine(t1)>>
        /\ wrote[t2] = <<FailureLine(t2)>> /\ attempt[t2] = MaxRetries

\* retry_failed_images is entered over a failure ledger without a URL:
\* empty (as main creates it when it is missing) or of blank lines only.
NothingToRetry == mpc = "started" /\ mode = "retry" /\ NonBlank(failed_file) = <<>>

\* C20: over a failure ledger that is missing, empty or blank,
\* retry_failed_images returns at once: no candidate is submitted, no
\* worker runs, nothing is fetched and the two ledgers and the image files
\* stay as they are.
C20_EmptyResumeIsNoOp ==
    /\ [][NothingToRetry =>
            /\ mpc' = "exit"
            /\ urls' = <<>> /\ pc' = <<>> /\ fetches' = <<>>
            /\ files' = files /\ failed_file' = failed_file /\ log_file' = log_file]_vars
    /\ []((mode = "retry" /\ urls = <<>>) => mpc \notin {"submitted", "pool", "rewrite", "rewriting"})

\* C20, its case: a resume run over a ledger of blank lines has returned and
\* the ledger still holds them.
C20_Witness ==
    /\ mode = "retry" /\ runs = 1 /\ mpc = "exit"
    /\ urls = <<>>
    /\ failed_file # <<>>

\* The candidates whose download_image entered the retry loop and returned
\* False.
FailedInLoop(t) == pc[t] = "done" /\ result[t] = "false" /\ actual[t] # None

\* Another candidate of the pass has the same target path and has started.
SharesPath(t) ==
    \E s \in Tasks \ {t} :
        /\ pc[s] # "queued" /\ actual[s] # None
        /\ PathOf(s) = PathOf(t)

\* C21: when download_image has entered the retry loop and returned False,
\* no file is left at the target path of the candidate (unless another
\* candidate of the pass writes to the same path).
C21_FailedLeavesNoFile ==
    \A t \in Tasks :
        (FailedInLoop(t) /\ ~SharesPath(t)) => ~files[PathOf(t)].exists

\* The URLs the candidates of the pass have appended to a ledger.
AppendedTo(ledger) ==
    UNION {{wrote[t][k].line : k \in {j \in DOMAIN wrote[t] : wrote[t][j].ledger = ledger}} :
              t \in Tasks}

\* C22: when a pass is over, every URL appended to the success ledger in the
\* pass has a valid image at its generate_unique_filename path and was not
\* appended to the failure ledger in the same pass.
C22_LoggedMeansStored ==
    PassOver =>
        \A u \in AppendedTo("log_file") :
            /\ ValidAt(generate_unique_filename(u))
            /\ u \notin AppendedTo("failed_file")

====
